---------------------------- MODULE Spec2Model ----------------------------
(***************************************************************************)
(* Model of the bank-statement reconciler of kyb-pdf-parser                *)
(* (src/next.config.ts, route.ts part: performReconciliation, l.406-431).  *)
(*                                                                         *)
(* Numbers.  A JavaScript Number is modelled as a tagged record            *)
(* [t, v]: t = "num" is a finite number whose decimal value is v/10000     *)
(* (v counts units of 0.0001, so that 0.0149 and 0.015 are values), and    *)
(* "nan", "inf", "ninf" are NaN, +Infinity, -Infinity.  The other tags     *)
(* are the non-number values a parsed LLM JSON can put in a field:         *)
(* "null", "undef" (field missing) and "str" (a non-numeric string).       *)
(* No distinction is made between -0 and 0 (=== does not make one, and     *)
(* JSON serialises both as 0).                                             *)
(*                                                                         *)
(* Binary floating point.  Additions of the decimal values of the model    *)
(* are exact up to an error far below one unit, so the only place where    *)
(* the binary64 representation decides an outcome is toFixed(2) of a       *)
(* value whose decimal is a tie (x.xx5): the double is then just above or  *)
(* just below the tie.  The inputs of the model reach a tie in a few       *)
(* computations only (DriftInputs, OrderInputs), and the side on which     *)
(* the double falls is recorded for each (DoubleBelowTie, SumAboveTie).    *)
(***************************************************************************)
EXTENDS Integers, Sequences, FiniteSets, TLC

VARIABLES
    data,      \* the argument of the current invocation of performReconciliation
    pc,        \* "ready": not yet invoked on data; "done": invoked, result holds
    result,    \* what the invocation produced (a ReconciliationResult or a throw)
    warned,    \* the "excluded from reconciliation" warnings of the invocation: the counts they report
    first,     \* the first invocation on data: [made, result]
    last,      \* the most recent invocation, on any argument: [made, arg, result]
    calls,     \* number of invocations made so far
    between,   \* number of invocations on other arguments since the first on data
    \* the POST handler of /api/parse-statement (l.433-492)
    apiKey,    \* whether GOOGLE_API_KEY is configured (l.244)
    hpc,       \* where the handler is: "idle", an await ("formData", "arrayBuffer",
               \* "pdf", "llm") or "responded"
    req,       \* what the request and the collaborators have delivered so far
    response,  \* the response of the current request
    pdfCalls,  \* invocations of pdf-parse in the current request
    llmCalls,  \* invocations of the LLM in the current request
    reconCalls, \* invocations of performReconciliation in the current request
    served,    \* requests answered so far
    script,    \* what the current request is: the first one, its repetition, another one
    firstReq,  \* the first request, as delivered
    firstResponse, \* the response the first request got
    others,    \* other requests answered since the first
    earlierData, \* the data extracted for the latest earlier request
    details,   \* what getDetailsFromLlm handed to its caller in the current request
    \* the upload form, HomePage (src/app/page.tsx l.39-109)
    file,      \* the selected file, NoFile for null
    isLoading, \* the isLoading state
    apiResponse, \* the apiResponse state, NoApiResponse for null
    error,     \* the error state, NoError for null
    flights,   \* the requests to /api/parse-statement in flight, oldest first
    completed  \* how the submission that has just completed ended, "none" otherwise

reconVars == <<data, pc, result, warned, first, last, calls, between>>

postVars ==
    <<apiKey, hpc, req, response, pdfCalls, llmCalls, reconCalls, served, script,
      firstReq, firstResponse, others, earlierData, details>>

pageVars == <<file, isLoading, apiResponse, error, flights, completed>>

vars == <<reconVars, postVars, pageVars>>

---------------------------------------------------------------------------
(* Bounds *)

MaxTx == 2        \* longest transaction list
MaxCalls == 3     \* invocations in one behaviour of SpecCalls
MaxFiles == 3     \* PDF files the user chooses among
MaxFlights == 2   \* requests in flight at a time
MaxRequests == 3  \* requests in one behaviour of SpecPost

---------------------------------------------------------------------------
(* JavaScript values *)

Num(n) == [t |-> "num", v |-> n]
NaN == [t |-> "nan", v |-> 0]
PosInf == [t |-> "inf", v |-> 0]
NegInf == [t |-> "ninf", v |-> 0]
Null == [t |-> "null", v |-> 0]
Undefined == [t |-> "undef", v |-> 0]
Str == [t |-> "str", v |-> 0]

\* typeof x === 'number'
IsNumber(x) == x.t \in {"num", "nan", "inf", "ninf"}

IsFinite(x) == x.t = "num"

\* a + b on two Numbers (IEEE-754 addition, exact on the finite values of the model)
NumAdd(a, b) ==
    IF a.t = "nan" \/ b.t = "nan" THEN NaN
    ELSE IF a.t = "inf" THEN (IF b.t = "ninf" THEN NaN ELSE PosInf)
    ELSE IF a.t = "ninf" THEN (IF b.t = "inf" THEN NaN ELSE NegInf)
    ELSE IF b.t \in {"inf", "ninf"} THEN b
    ELSE Num(a.v + b.v)

\* a - b on two Numbers
NumSub(a, b) ==
    NumAdd(a, IF b.t = "inf" THEN NegInf
              ELSE IF b.t = "ninf" THEN PosInf
              ELSE IF b.t = "nan" THEN NaN
              ELSE Num(0 - b.v))

\* the + operator of line 424: null converts to 0, a string operand makes it
\* a concatenation
Plus(a, b) ==
    IF a.t = "null" THEN NumAdd(Num(0), b)
    ELSE IF IsNumber(a) /\ IsNumber(b) THEN NumAdd(a, b)
    ELSE Str

Abs(n) == IF n < 0 THEN 0 - n ELSE n

---------------------------------------------------------------------------
(* Number.prototype.toFixed(2) and parseFloat *)

UnitsPerCent == 100

\* Decimal literals of the model that are ties (x.xx5) and whose binary64
\* value lies below the tie: 0.145 is 0.14499999999999999..., 0.075 is
\* 0.07499999999999999...
DoubleBelowTie == {1450, 750}

\* Sums <<startingBalance, valid amounts>> of the model whose decimal value is
\* a tie and whose binary64 value lies above it:
\* -4.802 + 4.947 is 0.14500000000000046...; 0.05 + the sum of 0.0185,
\* 0.0245 and -0.018 is 0.07500000000000001 when the sum is taken in the four
\* orders listed, and 0.075 (the double below the tie) in the other two
SumAboveTie ==
    { <<0 - 48020, <<49470>> >>,
      <<500, <<185, 0 - 180, 245>> >>,
      <<500, <<245, 0 - 180, 185>> >>,
      <<500, <<0 - 180, 185, 245>> >>,
      <<500, <<0 - 180, 245, 185>> >> }

\* toFixed(2) that cuts the digits after the second instead of rounding
ToFixed2Truncating(x, away) ==
    IF x.t = "nan" THEN [form |-> "NaN", neg |-> FALSE, cents |-> 0]
    ELSE IF x.t = "inf" THEN [form |-> "Infinity", neg |-> FALSE, cents |-> 0]
    ELSE IF x.t = "ninf" THEN [form |-> "Infinity", neg |-> TRUE, cents |-> 0]
    ELSE [form |-> "digits", neg |-> x.v < 0, cents |-> Abs(x.v) \div 100]

\* The string x.toFixed(2) of a Number x.  For a finite x it is the sign and
\* the number n of hundredths for which n/100 - |x| is closest to zero; on a
\* decimal tie, away tells whether the double lies on the far side of it.
ToFixed2(x, away) ==
    IF x.t = "nan" THEN [form |-> "NaN", neg |-> FALSE, cents |-> 0]
    ELSE IF x.t = "inf" THEN [form |-> "Infinity", neg |-> FALSE, cents |-> 0]
    ELSE IF x.t = "ninf" THEN [form |-> "Infinity", neg |-> TRUE, cents |-> 0]
    ELSE LET m == Abs(x.v)
             q == m \div UnitsPerCent
             r == m % UnitsPerCent
             n == IF 2 * r > UnitsPerCent THEN q + 1
                  ELSE IF 2 * r < UnitsPerCent THEN q
                  ELSE IF away THEN q + 1 ELSE q
         IN [form |-> "digits", neg |-> x.v < 0, cents |-> n]

\* parseFloat of a string produced by toFixed(2)
ParseFloat(s) ==
    IF s.form = "NaN" THEN NaN
    ELSE IF s.form = "Infinity" THEN (IF s.neg THEN NegInf ELSE PosInf)
    ELSE Num((IF s.neg THEN 0 - s.cents ELSE s.cents) * UnitsPerCent)


---------------------------------------------------------------------------
(* performReconciliation, src/next.config.ts l.406-431 *)

Tolerance == 150          \* 0.015, in units of 0.0001

\* A transaction list entry: an object with some amount, or null.  amount is
\* the only field of a Transaction that performReconciliation reads.
Tx(a) == [isNull |-> FALSE, amount |-> a]
NullEntry == [isNull |-> TRUE, amount |-> Undefined]

\* the result of an invocation that returned / that threw a TypeError
Returned(c, d, m) ==
    [threw |-> FALSE, calculatedEndingBalance |-> c, difference |-> d, matches |-> m]
Threw ==
    [threw |-> TRUE, calculatedEndingBalance |-> Undefined, difference |-> Undefined,
     matches |-> FALSE]

\* the three conditions joined by && instead of ||
ShortCircuitAll(d) ==
    /\ d.startingBalance.t = "null"
    /\ d.endingBalance.t = "null"
    /\ ~d.transactions.present

\* l.409: startingBalance === null || endingBalance === null || !transactions
ShortCircuit(d) ==
    \/ d.startingBalance.t = "null"
    \/ d.endingBalance.t = "null"
    \/ ~d.transactions.present

\* l.418: reading tx.amount of a null entry throws a TypeError
FilterThrows(items) == \E i \in 1..Len(items) : items[i].isNull

\* l.418: typeof tx.amount === 'number' && !isNaN(tx.amount)
IsValidAmount(a) == IsNumber(a) /\ a.t # "nan"

\* a filter that stops at the first invalid amount
RECURSIVE ValidPrefix(_)
ValidPrefix(items) ==
    IF items = <<>> \/ ~(IsNumber(Head(items).amount) /\ Head(items).amount.t # "nan")
    THEN <<>>
    ELSE <<Head(items)>> \o ValidPrefix(Tail(items))

\* l.418: data.transactions.filter(...)
ValidTransactions(items) == SelectSeq(items, LAMBDA tx : IsValidAmount(tx.amount))

\* l.423: validTransactions.reduce((sum, tx) => sum + tx.amount, 0)
RECURSIVE Reduce(_, _)
Reduce(sum, txs) ==
    IF txs = <<>> THEN sum ELSE Reduce(NumAdd(sum, Head(txs).amount), Tail(txs))

\* an accumulator kept between invocations: the sum starts from what the
\* previous invocation left
SumOfTransactionsCarried(valid) ==
    Reduce(IF last.made /\ last.result.calculatedEndingBalance.t = "num"
           THEN last.result.calculatedEndingBalance ELSE Num(0), valid)

SumOfTransactions(valid) == Reduce(Num(0), valid)

Amounts(txs) == [i \in 1..Len(txs) |-> txs[i].amount.v]

\* whether the double startingBalance + sumOfTransactions, when its decimal
\* value is a tie, lies on the far side of the tie
SumRoundsAway(start, valid) ==
    IF valid = <<>> THEN start.v \notin DoubleBelowTie
    ELSE <<start.v, Amounts(valid)>> \in SumAboveTie

\* whether the double endingBalance, when its decimal value is a tie, lies
\* on the far side of the tie
StatedRoundsAway(end) == end.v \notin DoubleBelowTie

\* l.424: parseFloat((data.startingBalance + sumOfTransactions).toFixed(2));
\* the argument is the Number startingBalance + sumOfTransactions
CalculatedEndingBalance(total, away) == ParseFloat(ToFixed2(total, away))

\* l.425: parseFloat(data.endingBalance.toFixed(2))
StatedEndingBalance(end) == ParseFloat(ToFixed2(end, StatedRoundsAway(end)))

\* the subtraction with its operands exchanged
DifferenceSwapped(stated, calculated) ==
    ParseFloat(ToFixed2(NumSub(calculated, stated), TRUE))

\* l.426: parseFloat((statedEndingBalance - calculatedEndingBalance).toFixed(2));
\* both operands are whole hundredths, so no tie arises
Difference(stated, calculated) == ParseFloat(ToFixed2(NumSub(stated, calculated), TRUE))

\* the comparison without Math.abs
MatchesNoAbs(difference) == IsFinite(difference) /\ difference.v < 150

\* a tolerance of half a cent
MatchesHalfCent(difference) == IsFinite(difference) /\ Abs(difference.v) < 50

\* no tolerance: only a zero difference matches
MatchesExact(difference) == IsFinite(difference) /\ difference.v = 0

\* l.427: Math.abs(difference) < 0.015
Matches(difference) == IsFinite(difference) /\ Abs(difference.v) < Tolerance

\* a warning emitted on every invocation that reaches l.419
ExcludedWarningAlways(d) ==
    IF ShortCircuit(d) \/ FilterThrows(d.transactions.items) THEN <<>>
    ELSE <<Len(d.transactions.items) - Len(ValidTransactions(d.transactions.items))>>

\* l.419-421: the warnings about excluded transactions that the invocation
\* emits, each given by the number it reports (the warning precedes the
\* statements of l.424-425 that can throw)
ExcludedWarning(d) ==
    IF ShortCircuit(d) \/ FilterThrows(d.transactions.items) THEN <<>>
    ELSE LET valid == ValidTransactions(d.transactions.items)
         IN IF Len(valid) # Len(d.transactions.items)
            THEN <<Len(d.transactions.items) - Len(valid)>>
            ELSE <<>>

\* an in-place filter: the excluded transactions are removed from the argument
ArgumentFiltered(d) ==
    IF ShortCircuit(d) \/ FilterThrows(d.transactions.items) THEN d
    ELSE [d EXCEPT !.transactions.items = ValidTransactions(d.transactions.items)]

\* l.418-430: the argument after the invocation; filter builds a new array
\* and nothing is assigned to data or to its transactions
ArgumentAfter(d) == d

\* the function reads its argument only: no variable of the module
performReconciliation(d) ==
    IF ShortCircuit(d) THEN Returned(Null, Null, FALSE)
    ELSE IF FilterThrows(d.transactions.items) THEN Threw
    ELSE LET valid == ValidTransactions(d.transactions.items)
             total == Plus(d.startingBalance, SumOfTransactions(valid))
         IN IF ~IsNumber(total) THEN Threw                 \* l.424: no toFixed on a string
            ELSE IF ~IsNumber(d.endingBalance) THEN Threw  \* l.425
            ELSE LET calculated ==
                         CalculatedEndingBalance(total, SumRoundsAway(d.startingBalance, valid))
                     stated == StatedEndingBalance(d.endingBalance)
                     difference == Difference(stated, calculated)
                 IN Returned(calculated, difference, Matches(difference))


---------------------------------------------------------------------------
(* Inputs *)

RECURSIVE SeqsUpTo(_, _)
SeqsUpTo(S, n) ==
    IF n = 0 THEN {<<>>}
    ELSE LET shorter == SeqsUpTo(S, n - 1)
         IN shorter \cup {Append(q, x) : q \in {r \in shorter : Len(r) = n - 1}, x \in S}

Absent == [present |-> FALSE, items |-> <<>>]
List(items) == [present |-> TRUE, items |-> items]

Input(start, end, txs) ==
    [startingBalance |-> start, endingBalance |-> end, transactions |-> txs]

\* 0, 0.0049, 0.0051, and what JSON.parse gives for null, "..." and 1e999
StartValues == {Null, Str, PosInf, Num(0), Num(49), Num(51)}

\* 0, 0.0149, 0.0198, 0.0199, 0.0201, 0.02
EndValues == {Null, Str, PosInf, Num(0), Num(149), Num(198), Num(199), Num(201), Num(200)}

\* 0.01, -0.01, 0.02, and the malformed entries
Entries ==
    {Tx(Num(100)), Tx(Num(0 - 100)), Tx(Num(200)),
     Tx(Undefined), Tx(Str), Tx(NaN), Tx(PosInf), Tx(NegInf), NullEntry}

GeneralInputs ==
    {Input(s, e, t) : s \in StartValues, e \in EndValues,
                      t \in {Absent} \cup {List(q) : q \in SeqsUpTo(Entries, MaxTx)}}

\* -4.802 + 4.947 against a stated 0.145: the one exact sum of the model
\* that is a decimal tie
DriftInputs ==
    {Input(Num(0 - 48020), Num(1450), List(q)) :
        q \in SeqsUpTo({Tx(Num(49470)), Tx(Undefined)}, MaxTx)}

\* the arrangements of a sequence
Arrangements(q) ==
    {[i \in 1..Len(q) |-> q[p[i]]] : p \in Permutations(1..Len(q))}

\* 0.05 + (0.0185, 0.0245, -0.018 in some order) against a stated 0.075 or
\* 0.06: the exact sum, 0.075, is a decimal tie
OrderInputs ==
    {Input(Num(500), e, List(q)) :
        e \in {Num(750), Num(600)},
        q \in Arrangements(<<Tx(Num(185)), Tx(Num(245)), Tx(Num(0 - 180))>>)}

\* 1200.00 against a stated 1550.00, with 500.00, -150.00 and -150.01
ExampleInputs ==
    {Input(Num(12000000), Num(15500000), List(q)) :
        q \in SeqsUpTo({Tx(Num(5000000)), Tx(Num(0 - 1500000)), Tx(Num(0 - 1500100))}, MaxTx)}

Inputs == GeneralInputs \cup DriftInputs \cup OrderInputs \cup ExampleInputs

\* the inputs on which repeated and interleaved invocations are followed
CallInputs ==
    DriftInputs \cup
    {d \in GeneralInputs : /\ d.startingBalance \in {Null, Num(0), Num(51)}
                           /\ d.endingBalance \in {Num(0), Num(201)}}

\* arguments of the invocations made between two invocations on d
Interleaved(d) ==
    {[d EXCEPT !.startingBalance = Num(51), !.endingBalance = Num(0)],
     [d EXCEPT !.transactions = List(<<Tx(Num(200))>>)],
     Input(Null, Num(0), Absent)} \ {d}

---------------------------------------------------------------------------
(* The POST handler: values *)

MinTextLength == 50       \* l.454

\* a JSON value in a text field: a string, null, a number, or no field at all
JStr(x) == [t |-> "str", s |-> x]
JNull == [t |-> "null", s |-> ""]
JNumber == [t |-> "num", s |-> ""]
JMissing == [t |-> "undef", s |-> ""]

\* the transactions field of a JSON object: an array, null, another value
\* (an object, a non-empty string), or no field at all
JArray(items) == [kind |-> "array", items |-> items]
JNoArray(k) == [kind |-> k, items |-> <<>>]

ExtractedData(name, address, date, start, end, txs) ==
    [accountHolderName |-> name, accountHolderAddress |-> address,
     statementDate |-> date, startingBalance |-> start, endingBalance |-> end,
     transactions |-> txs]

NoData == ExtractedData(JMissing, JMissing, JMissing, Undefined, Undefined, JNoArray("undef"))

\* the extracted text of a PDF: its length and the length of its trim()
Text(n, k) == [len |-> n, trimmed |-> k]

Texts == {Text(0, 0), Text(3, 0), Text(49, 49), Text(52, 49), Text(50, 50), Text(60, 50)}

\* what pdf-parse does with the file: it throws, or it resolves with a text
PdfThrows == [kind |-> "throws", text |-> Text(0, 0)]
PdfText(t) == [kind |-> "text", text |-> t]
PdfOutcomes == {PdfThrows} \cup {PdfText(t) : t \in Texts}

\* the JSON objects the LLM answers with in the model
LlmObjects ==
    {ExtractedData(n, a, d, s, e, t) :
        n \in {JMissing, JStr("Jane Doe"), JNumber},
        a \in {JMissing, JStr("1 Main St")},
        d \in {JMissing, JStr("2024-01-31")},
        s \in {Undefined, Null, Num(0), Str},
        e \in {Undefined, Num(200)},
        t \in {JNoArray("undef"), JNoArray("null"), JNoArray("other"),
               JArray(<<Tx(Num(200))>>), JArray(<<Tx(Num(100)), Tx(Undefined)>>),
               JArray(<<NullEntry>>)}}

\* what the LLM call does: it throws, it answers with an empty text, with a
\* text that is not JSON, with JSON that is null or a primitive ("nonobject"),
\* with a JSON array, or with an object
LlmFails(k) == [kind |-> k, json |-> NoData]
LlmObject(x) == [kind |-> "object", json |-> x]
LlmOutcomes ==
    {LlmFails(k) : k \in {"throws", "empty", "badjson", "nonobject", "jsonarray"}}
        \cup {LlmObject(x) : x \in LlmObjects}

NoPdf == [kind |-> "none", text |-> Text(0, 0)]
NoLlm == LlmFails("none")

\* a request: the pdfFile entry of its form data ("throws" when formData()
\* rejects, "none", "other" for a file that is not application/pdf, "pdf"),
\* what arrayBuffer() does, what pdf-parse does and what the LLM does;
\* "none" for what the handler has not asked for
Request(f, b, p, l) == [form |-> f, buffer |-> b, pdf |-> p, llm |-> l]
NoRequest == Request("none", "none", NoPdf, NoLlm)

\* the ReconciliationResult as serialised in the response: JSON has no NaN
\* and no infinities, they become null
JsonNumber(x) == IF x.t \in {"nan", "inf", "ninf"} THEN Null ELSE x
JsonResult(r) ==
    [calculatedEndingBalance |-> JsonNumber(r.calculatedEndingBalance),
     difference |-> JsonNumber(r.difference), matches |-> r.matches]
NoReconciliation == [calculatedEndingBalance |-> Undefined, difference |-> Undefined,
                     matches |-> FALSE]

\* a response: status 0 stands for no response
Response(st, err, msg, x, raw, r) ==
    [status |-> st, error |-> err, message |-> msg, extractedData |-> x,
     rawPdfText |-> raw, reconciliation |-> r]
NoResponse == Response(0, "", "", NoData, Text(0, 0), NoReconciliation)
ErrorResponse(st, err) == Response(st, err, "", NoData, Text(0, 0), NoReconciliation)

FirstRequest == [is |-> "first", req |-> NoRequest]

\* what getDetailsFromLlm hands to its caller: a record, or an exception
Gives(x) == [called |-> TRUE, threw |-> FALSE, data |-> x]
Throws == [called |-> TRUE, threw |-> TRUE, data |-> NoData]
NoDetails == [called |-> FALSE, threw |-> FALSE, data |-> NoData]

PostIdle ==
    /\ hpc = "idle"
    /\ req = NoRequest
    /\ response = NoResponse
    /\ pdfCalls = 0
    /\ llmCalls = 0
    /\ reconCalls = 0
    /\ served = 0
    /\ script = FirstRequest
    /\ firstReq = NoRequest
    /\ firstResponse = NoResponse
    /\ others = 0
    /\ earlierData = NoData
    /\ details = NoDetails

---------------------------------------------------------------------------
(* The upload form: values *)

NoFile == 0
Files == 1..MaxFiles

\* the error state: null, or a message
NoError == [set |-> FALSE, text |-> ""]
Err(text) == [set |-> TRUE, text |-> text]

\* the apiResponse state: null, or the body the API answered for a file
NoApiResponse == [set |-> FALSE, file |-> NoFile]
ResponseFor(f) == [set |-> TRUE, file |-> f]

\* a request in flight: the file in its form data, the await handleSubmit is
\* at ("fetch", "json") and response.status once fetch has resolved, 0 before
Flight(f, at, st) == [file |-> f, at |-> at, status |-> st]

PageIdle ==
    /\ file = NoFile
    /\ isLoading = FALSE
    /\ apiResponse = NoApiResponse
    /\ error = NoError
    /\ flights = <<>>
    /\ completed = "none"

---------------------------------------------------------------------------
(* The invocations *)

NoResult == Returned(Undefined, Undefined, FALSE)
NoCall == [made |-> FALSE, arg |-> Input(Null, Null, Absent), result |-> NoResult]
NotYet == [made |-> FALSE, result |-> NoResult]

InitFrom(S) ==
    /\ data \in S
    /\ pc = "ready"
    /\ result = NoResult
    /\ warned = <<>>
    /\ first = NotYet
    /\ last = NoCall
    /\ calls = 0
    /\ between = 0
    /\ apiKey = TRUE
    /\ PostIdle
    /\ PageIdle

Init == InitFrom(Inputs)

InitCalls == InitFrom(CallInputs)

\* performReconciliation(data) is invoked and runs to its return or throw
Reconcile ==
    /\ pc = "ready"
    /\ calls < MaxCalls
    /\ result' = performReconciliation(data)
    /\ warned' = ExcludedWarning(data)
    /\ pc' = "done"
    /\ first' = IF first.made THEN first ELSE [made |-> TRUE, result |-> result']
    /\ last' = [made |-> TRUE, arg |-> data, result |-> result']
    /\ calls' = calls + 1
    /\ data' = ArgumentAfter(data)
    /\ UNCHANGED <<between, postVars, pageVars>>

\* between two invocations on data, performReconciliation is invoked on
\* another argument (by another request)
ReconcileOther ==
    /\ pc = "done"
    /\ calls < MaxCalls
    /\ \E o \in Interleaved(data) :
          last' = [made |-> TRUE, arg |-> o, result |-> performReconciliation(o)]
    /\ calls' = calls + 1
    /\ between' = between + 1
    /\ UNCHANGED <<data, pc, result, warned, first, postVars, pageVars>>

\* the caller is about to invoke performReconciliation on the same data again
Again ==
    /\ pc = "done"
    /\ calls < MaxCalls
    /\ pc' = "ready"
    /\ UNCHANGED <<data, result, warned, first, last, calls, between, postVars, pageVars>>

Next == Reconcile

Spec == Init /\ [][Next]_vars

NextCalls == Reconcile \/ ReconcileOther \/ Again

SpecCalls == InitCalls /\ [][NextCalls]_vars


---------------------------------------------------------------------------
(* The POST handler: operations *)

\* a validation that accepts a file of any type
ValidateFileAnyType(f) ==
    IF f = "none" THEN ErrorResponse(400, "No file uploaded.") ELSE NoResponse

\* l.439-446: the response that rejects the pdfFile entry, NoResponse if it
\* is accepted
ValidateFile(f) ==
    IF f = "none" THEN ErrorResponse(400, "No file uploaded.")
    ELSE IF f # "pdf" THEN ErrorResponse(400, "Invalid file type. Please upload a PDF.")
    ELSE NoResponse

\* l.485-490: the response of the catch of the handler
ServerError ==
    ErrorResponse(500, "An unexpected server error occurred while processing the PDF.")

\* a length check on the text as extracted, without trim()
IsMinimalUntrimmed(t) == t.len < MinTextLength

\* l.454: !extractedText || extractedText.trim().length < 50
IsMinimal(t) == t.len = 0 \/ t.trimmed < MinTextLength

\* l.456-465
MinimalResponse(t) ==
    Response(200, "",
        "PDF parsed, but content was minimal or empty. Please ensure it's a text-based PDF.",
        ExtractedData(JStr("Parsing Issue"),
                      JStr("Extracted text was too short or empty. The PDF might be scanned, password-protected, or have no selectable text."),
                      JStr("N/A"), Null, Null, JArray(<<>>)),
        t, [calculatedEndingBalance |-> Null, difference |-> Null, matches |-> FALSE])

\* l.290-293
KeyMissingRecord ==
    ExtractedData(JStr("Error: Gemini API Key Missing or Invalid"), JNull, JNull,
                  Null, Null, JArray(<<>>))

\* l.298-301
EmptyTextRecord == ExtractedData(JNull, JNull, JNull, Null, Null, JArray(<<>>))

\* l.400: `Error: Gemini LLM Failed (Details: ${error.message || 'Unknown error'})`
LlmFailedName(k) ==
    CASE k = "throws" -> "Error: Gemini LLM Failed (Details: fetch failed)"
      [] k = "empty" -> "Error: Gemini LLM Failed (Details: Gemini LLM returned an empty response.)"
      [] k = "badjson" -> "Error: Gemini LLM Failed (Details: Unexpected token)"
      [] OTHER -> "Error: Gemini LLM Failed (Details: Cannot use 'in' operator)"

LlmFailureKinds == {"throws", "empty", "badjson", "nonobject"}

\* name.startsWith("Error: Gemini LLM Failed"), on the strings of the model
StartsWithLlmFailed(x) == x \in {LlmFailedName(k) : k \in LlmFailureKinds}

\* on a failure, the data of the latest earlier request instead of an empty record
LlmFailedRecordCached(k) ==
    IF earlierData # NoData THEN earlierData
    ELSE ExtractedData(JStr(LlmFailedName(k)), JNull, JNull, Null, Null, JArray(<<>>))

\* l.399-402: what the catch of getDetailsFromLlm returns
LlmFailedRecord(k) ==
    ExtractedData(JStr(LlmFailedName(k)), JNull, JNull, Null, Null, JArray(<<>>))

\* l.375-389: a missing field becomes null, missing transactions become [],
\* transactions that are truthy and not an array become []
Defaulted(x) ==
    LET text(v) == IF v.t = "undef" THEN JNull ELSE v
        number(v) == IF v.t = "undef" THEN Null ELSE v
    IN ExtractedData(text(x.accountHolderName), text(x.accountHolderAddress),
                     text(x.statementDate), number(x.startingBalance),
                     number(x.endingBalance),
                     IF x.transactions.kind \in {"undef", "other"} THEN JArray(<<>>)
                     ELSE x.transactions)

\* the `in` test on JSON that is not an object made outside the try
LlmRecordUncaught(o) ==
    IF o.kind = "object" THEN Gives(Defaulted(o.json))
    ELSE IF o.kind = "jsonarray" THEN Gives(Defaulted(NoData))
    ELSE IF o.kind = "nonobject" THEN Throws
    ELSE Gives(LlmFailedRecord(o.kind))

\* l.344-403: the try of getDetailsFromLlm once generateContent has settled;
\* an exception of the call, an empty text (l.366-369), JSON.parse of a text
\* that is not JSON and the `in` test on null or a primitive all end in the
\* catch; a JSON array has none of the fields and gets them all defaulted
LlmRecord(o) ==
    IF o.kind = "object" THEN Gives(Defaulted(o.json))
    ELSE IF o.kind = "jsonarray" THEN Gives(Defaulted(NoData))
    ELSE Gives(LlmFailedRecord(o.kind))

\* l.288 and l.296: whether getDetailsFromLlm reaches the LLM call
CallsLlm(key, t) == key /\ ~(t.len = 0 \/ t.trimmed = 0)

\* l.285-404
getDetailsFromLlm(key, t, o) ==
    IF ~key THEN Gives(KeyMissingRecord)
    ELSE IF t.len = 0 \/ t.trimmed = 0 THEN Gives(EmptyTextRecord)
    ELSE LlmRecord(o)

\* the argument performReconciliation gets: the record as it is
ToInput(x) ==
    Input(x.startingBalance, x.endingBalance,
          IF x.transactions.kind = "array" THEN List(x.transactions.items) ELSE Absent)

\* l.477: accountHolderName && accountHolderName.startsWith(...): a name that
\* is truthy and not a string has no startsWith
MessageThrows(x) == x.accountHolderName.t = "num"

\* l.477-479
Message(x) ==
    IF x.accountHolderName.t = "str" /\ StartsWithLlmFailed(x.accountHolderName.s)
    THEN "PDF processed, but there was an issue with LLM data extraction."
    ELSE "PDF processed and LLM extraction complete."

JsonData(x) ==
    [x EXCEPT !.startingBalance = JsonNumber(x.startingBalance),
              !.endingBalance = JsonNumber(x.endingBalance)]

\* an exception of performReconciliation or of startsWith that no catch
\* answers: the request is left without a response
FinishUncaught(t, g) ==
    IF g.threw THEN ServerError
    ELSE LET r == performReconciliation(ToInput(g.data))
         IN IF r.threw \/ MessageThrows(g.data) THEN NoResponse
            ELSE Response(200, "", Message(g.data), JsonData(g.data), t, JsonResult(r))

\* l.468-483 and the catch of l.485: the response once getDetailsFromLlm has
\* settled with g, for the extracted text t
Finish(t, g) ==
    IF g.threw THEN ServerError
    ELSE LET r == performReconciliation(ToInput(g.data))
         IN IF r.threw \/ MessageThrows(g.data) THEN ServerError
            ELSE Response(200, "", Message(g.data), JsonData(g.data), t, JsonResult(r))

\* a second attempt after an LLM call that threw
LlmRetriesOnThrow(o) == o.kind = "throws"

\* l.358-361, l.394: whether the LLM is called again after the call settled
\* with o: the call is in no loop, the catch returns
LlmRetries(o) == FALSE

\* the other requests served between the first request and its repetition
OtherRequests ==
    {Request("pdf", "ok", PdfText(Text(60, 50)),
             LlmObject(ExtractedData(JStr("Jane Doe"), JStr("1 Main St"), JStr("2024-01-31"),
                                     Num(0), Num(200), JArray(<<Tx(Num(200))>>)))),
     Request("pdf", "ok", PdfText(Text(50, 50)), LlmFails("throws")),
     Request("none", "none", NoPdf, NoLlm)}

---------------------------------------------------------------------------
(* The POST handler: one action for each stretch between two awaits *)

\* no invocation of performReconciliation other than the handler's
ReconIdle ==
    /\ data = Input(Null, Null, Absent)
    /\ pc = "ready"
    /\ result = NoResult
    /\ warned = <<>>
    /\ first = NotYet
    /\ last = NoCall
    /\ calls = 0
    /\ between = 0

InitPost ==
    /\ ReconIdle
    /\ apiKey \in BOOLEAN
    /\ PostIdle
    /\ PageIdle

\* the collaborator delivers what the script of the request says; the first
\* request has no script
Delivers(field, o) == script.is = "first" \/ o = script.req[field]

\* NextResponse.json(resp) is returned: the request is answered
Respond(resp, r) ==
    /\ response' = resp
    /\ hpc' = "responded"
    /\ served' = served + 1
    /\ firstReq' = IF script.is = "first" THEN r ELSE firstReq
    /\ firstResponse' = IF script.is = "first" THEN resp ELSE firstResponse
    /\ others' = IF script.is = "other" THEN others + 1 ELSE others

Waits(at) ==
    /\ hpc' = at
    /\ UNCHANGED <<response, served, firstReq, firstResponse, others>>

\* l.433-436: a request arrives and the handler awaits request.formData()
Receive ==
    /\ hpc \in {"idle", "responded"}
    /\ served < MaxRequests
    /\ script' \in IF served = 0 THEN {FirstRequest}
                  ELSE {[is |-> "repeat", req |-> firstReq]}
                           \cup {[is |-> "other", req |-> r] : r \in OtherRequests}
    /\ hpc' = "formData"
    /\ req' = NoRequest
    /\ response' = NoResponse
    /\ pdfCalls' = 0
    /\ llmCalls' = 0
    /\ reconCalls' = 0
    /\ earlierData' = IF response.status = 200 THEN response.extractedData ELSE earlierData
    /\ details' = NoDetails
    /\ UNCHANGED <<apiKey, served, firstReq, firstResponse, others, reconVars, pageVars>>

\* l.436-449: formData() settles; the file is validated and the handler
\* awaits file.arrayBuffer()
FormDataDone ==
    /\ hpc = "formData"
    /\ \E f \in {"throws", "none", "other", "pdf"} :
          /\ Delivers("form", f)
          /\ req' = [req EXCEPT !.form = f]
          /\ IF f = "throws" THEN Respond(ServerError, req')
             ELSE IF ValidateFile(f) # NoResponse THEN Respond(ValidateFile(f), req')
             ELSE Waits("arrayBuffer")
    /\ UNCHANGED <<apiKey, pdfCalls, llmCalls, reconCalls, script, earlierData, details,
                    reconVars, pageVars>>

\* l.449-452, l.273: arrayBuffer() settles; parsePdfToString calls pdf-parse
ArrayBufferDone ==
    /\ hpc = "arrayBuffer"
    /\ \E b \in {"throws", "ok"} :
          /\ Delivers("buffer", b)
          /\ req' = [req EXCEPT !.buffer = b]
          /\ IF b = "throws"
             THEN Respond(ServerError, req') /\ UNCHANGED pdfCalls
             ELSE Waits("pdf") /\ pdfCalls' = pdfCalls + 1
    /\ UNCHANGED <<apiKey, llmCalls, reconCalls, script, earlierData, details, reconVars, pageVars>>

\* l.273-283, l.452-468, l.285-361: pdf-parse settles; a rejection is thrown
\* on to the catch of the handler, a minimal text is answered at once, and
\* otherwise getDetailsFromLlm runs up to the LLM call, or, without an API
\* key, to its return, after which the handler runs to its end
PdfDone ==
    /\ hpc = "pdf"
    /\ \E o \in PdfOutcomes :
          /\ Delivers("pdf", o)
          /\ req' = [req EXCEPT !.pdf = o]
          /\ IF o.kind = "throws"
             THEN Respond(ServerError, req') /\ UNCHANGED <<llmCalls, reconCalls, details>>
             ELSE IF IsMinimal(o.text)
             THEN /\ Respond(MinimalResponse(o.text), req')
                  /\ UNCHANGED <<llmCalls, reconCalls, details>>
             ELSE IF CallsLlm(apiKey, o.text)
             THEN /\ Waits("llm")
                  /\ llmCalls' = llmCalls + 1
                  /\ UNCHANGED <<reconCalls, details>>
             ELSE /\ details' = getDetailsFromLlm(apiKey, o.text, NoLlm)
                  /\ Respond(Finish(o.text, details'), req')
                  /\ reconCalls' = reconCalls + 1
                  /\ UNCHANGED llmCalls
    /\ UNCHANGED <<apiKey, pdfCalls, script, earlierData, reconVars, pageVars>>

\* l.361-403, l.468-483: generateContent settles; getDetailsFromLlm returns
\* and the handler reconciles and answers
LlmDoneOf(outcomes) ==
    /\ hpc = "llm"
    /\ \E o \in outcomes :
          /\ Delivers("llm", o)
          /\ IF LlmRetries(o) /\ llmCalls < 2
             THEN /\ llmCalls' = llmCalls + 1
                  /\ Waits("llm")
                  /\ UNCHANGED <<req, reconCalls, details>>
             ELSE /\ req' = [req EXCEPT !.llm = o]
                  /\ details' = getDetailsFromLlm(apiKey, req.pdf.text, o)
                  /\ Respond(Finish(req.pdf.text, details'), req')
                  /\ reconCalls' = IF details'.threw THEN reconCalls ELSE reconCalls + 1
                  /\ UNCHANGED llmCalls
    /\ UNCHANGED <<apiKey, pdfCalls, script, earlierData, reconVars, pageVars>>

LlmDone == LlmDoneOf(LlmOutcomes)

NextPost == Receive \/ FormDataDone \/ ArrayBufferDone \/ PdfDone \/ LlmDone

SpecPost == InitPost /\ [][NextPost]_vars

\* the LLM outcomes of the behaviours in which every request is followed to
\* its answer: every failure, the object of OtherRequests, an object that
\* makes performReconciliation throw, an object whose name is a number and
\* an object without any field
SettledOutcomes ==
    {LlmFails(k) : k \in {"throws", "empty", "badjson", "nonobject", "jsonarray"}}
        \cup {o.llm : o \in {r \in OtherRequests : r.llm.kind = "object"}}
        \cup {LlmObject(ExtractedData(JStr("Jane Doe"), JMissing, JMissing, Num(0), Num(200),
                                      JArray(<<NullEntry>>))),
              LlmObject(ExtractedData(JNumber, JMissing, JMissing, Num(0), Num(200),
                                      JArray(<<Tx(Num(200))>>))),
              LlmObject(NoData)}

LlmSettles == LlmDoneOf(SettledOutcomes)

NextPostFair == Receive \/ FormDataDone \/ ArrayBufferDone \/ PdfDone \/ LlmSettles

\* the awaits of the handler: l.436, l.449, l.273, l.358
Awaiting == {"formData", "arrayBuffer", "pdf", "llm"}

\* the handler leaves an await: a step of FormDataDone, ArrayBufferDone,
\* PdfDone or LlmSettles, each of which moves hpc
Continues == hpc \in Awaiting /\ hpc' \in Awaiting \cup {"responded"}

\* every awaited promise settles (formData, arrayBuffer, and pdf-parse and
\* the LLM call, which return or throw) and the event loop then runs the
\* continuation of the handler
SpecPostFair == InitPost /\ [][NextPostFair]_vars /\ WF_hpc(Continues)

---------------------------------------------------------------------------
(* getDetailsFromLlm on its own, and the end of the handler on what it gives *)

InitDetails ==
    /\ ReconIdle
    /\ apiKey \in BOOLEAN
    /\ hpc = "extracting"
    /\ req \in {Request("pdf", "ok", PdfText(t), o) : t \in Texts, o \in LlmOutcomes}
    /\ response = NoResponse
    /\ pdfCalls = 0
    /\ llmCalls = 0
    /\ reconCalls = 0
    /\ served = 0
    /\ script = FirstRequest
    /\ firstReq = NoRequest
    /\ firstResponse = NoResponse
    /\ others = 0
    /\ earlierData = NoData
    /\ details = NoDetails
    /\ PageIdle

\* l.285-404: getDetailsFromLlm(text) is invoked and runs to its return or throw
Extract ==
    /\ hpc = "extracting"
    /\ details' = getDetailsFromLlm(apiKey, req.pdf.text, req.llm)
    /\ hpc' = "extracted"
    /\ UNCHANGED <<apiKey, req, response, pdfCalls, llmCalls, reconCalls, served, script,
                    firstReq, firstResponse, others, earlierData, reconVars, pageVars>>

\* l.469-491: the handler goes on with what getDetailsFromLlm gave
Answer ==
    /\ hpc = "extracted"
    /\ response' = Finish(req.pdf.text, details)
    /\ hpc' = "responded"
    /\ UNCHANGED <<apiKey, req, pdfCalls, llmCalls, reconCalls, served, script,
                    firstReq, firstResponse, others, earlierData, details, reconVars, pageVars>>

NextDetails == Extract \/ Answer

SpecDetails == InitDetails /\ [][NextDetails]_vars

---------------------------------------------------------------------------
(* The upload form, HomePage: src/app/page.tsx l.39-160 *)

\* what the user can choose in the file dialog: a PDF file, a file of
\* another type, or nothing (the selection is cancelled)
Selections ==
    {[kind |-> "pdf", file |-> f] : f \in Files}
        \cup {[kind |-> "other", file |-> NoFile], [kind |-> "cancel", file |-> NoFile]}

\* a submit button that is disabled only while no file is selected
SubmitDisabledWithoutFile(loading, f) == f = NoFile

\* l.157: disabled={isLoading || !file}
SubmitDisabled(loading, f) == loading \/ f = NoFile

\* the statuses the API answers with, and the error texts of its bodies
\* ("" for a body without error text)
Statuses == {200, 400, 500}
ErrorTexts ==
    {"", "No file uploaded.", "Invalid file type. Please upload a PDF.",
     "An unexpected server error occurred while processing the PDF."}

\* what response.json() does: it rejects, or it resolves with a body
Unparseable == [parsed |-> FALSE, error |-> ""]
Body(text) == [parsed |-> TRUE, error |-> text]
Bodies == {Unparseable} \cup {Body(text) : text \in ErrorTexts}

\* l.92: response.ok
Ok(st) == st = 200

\* the message of the Error thrown for a response that is not OK, without
\* the fallback for a body that has no error text
ThrownMessageNoFallback(st, body) ==
    IF body.error # "" THEN Err(body.error) ELSE NoError

\* l.96: result.error || `API Error: ${response.statusText} (Status: ${response.status})`
ThrownMessage(st, body) ==
    IF body.error # "" THEN Err(body.error)
    ELSE IF st = 400 THEN Err("API Error: Bad Request (Status: 400)")
    ELSE Err("API Error: Internal Server Error (Status: 500)")

\* isLoading is set to false at the end of the try, not in a finally
LoadingAfterTryOnly(how) == how # "ok"

\* l.106-108: isLoading once the submission has completed, however it ended
LoadingAfter(how) == FALSE

Remove(q, i) == SubSeq(q, 1, i - 1) \o SubSeq(q, i + 1, Len(q))

InitPage ==
    /\ ReconIdle
    /\ apiKey = TRUE
    /\ PostIdle
    /\ PageIdle

\* l.50-67: the change event of the file input
handleFileChange ==
    /\ \E sel \in Selections :
          /\ file' = sel.file
          /\ error' = IF sel.kind = "pdf" THEN NoError
                      ELSE IF sel.kind = "other" THEN Err("Please select a PDF file.")
                      ELSE error
    /\ apiResponse' = NoApiResponse
    /\ completed' = "none"
    /\ UNCHANGED <<isLoading, flights, reconVars, postVars>>

\* l.70-88: the submit event of the form, which the button gives only while
\* it is enabled; handleSubmit runs up to await fetch(...)
Submit ==
    /\ ~SubmitDisabled(isLoading, file)
    /\ Len(flights) < MaxFlights
    /\ IF file = NoFile
       THEN /\ error' = Err("Please select a PDF file to upload.")
            /\ UNCHANGED <<isLoading, apiResponse, flights>>
       ELSE /\ isLoading' = TRUE
            /\ apiResponse' = NoApiResponse
            /\ error' = NoError
            /\ flights' = Append(flights, Flight(file, "fetch", 0))
    /\ completed' = "none"
    /\ UNCHANGED <<file, reconVars, postVars>>

\* l.99-108: the submission of flight i completes: the catch for a failure,
\* setApiResponse for a success, and the finally
Complete(i, how, message) ==
    /\ apiResponse' = IF how = "ok" THEN ResponseFor(flights[i].file) ELSE NoApiResponse
    /\ error' = IF how = "ok" THEN error ELSE message
    /\ isLoading' = LoadingAfter(how)
    /\ flights' = Remove(flights, i)
    /\ completed' = how

\* l.86-92: fetch settles: it rejects (status 0), or it resolves with a
\* response, and handleSubmit awaits response.json()
FetchSettles ==
    /\ \E i \in 1..Len(flights) :
          /\ flights[i].at = "fetch"
          /\ \E st \in Statuses \cup {0} :
                IF st = 0
                THEN Complete(i, "rejects", Err("Failed to fetch"))
                ELSE /\ flights' = [flights EXCEPT ![i] = Flight(@.file, "json", st)]
                     /\ completed' = "none"
                     /\ UNCHANGED <<isLoading, apiResponse, error>>
    /\ UNCHANGED <<file, reconVars, postVars>>

\* l.92-99: response.json() settles: it rejects for a body that is not JSON,
\* or it resolves with a body that has an error text or has none
JsonSettles ==
    /\ \E i \in 1..Len(flights) :
          /\ flights[i].at = "json"
          /\ \E body \in Bodies :
                IF ~body.parsed
                THEN Complete(i, "unparseable", Err("Unexpected token < in JSON at position 0"))
                ELSE IF ~Ok(flights[i].status)
                THEN Complete(i, "notok", ThrownMessage(flights[i].status, body))
                ELSE Complete(i, "ok", NoError)
    /\ UNCHANGED <<file, reconVars, postVars>>

NextPage == handleFileChange \/ Submit \/ FetchSettles \/ JsonSettles

SpecPage == InitPage /\ [][NextPage]_vars

\* fetch and response.json() settle, and the event loop then runs the
\* continuation of handleSubmit
SpecPageFair == SpecPage /\ WF_vars(FetchSettles) /\ WF_vars(JsonSettles)

---------------------------------------------------------------------------
(* Vocabulary of the properties *)

Items == data.transactions.items

\* the input has the shape of a ReconciliationInput: balances that are
\* numbers, a transaction list whose entries are objects
WellShaped ==
    /\ IsNumber(data.startingBalance)
    /\ IsNumber(data.endingBalance)
    /\ data.transactions.present
    /\ \A i \in 1..Len(Items) : ~Items[i].isNull

\* positions of the amounts that are numbers other than NaN
NumericIdx == {i \in 1..Len(Items) : Items[i].amount.t \in {"num", "inf", "ninf"}}

\* positions of the amounts that are finite numbers
FiniteIdx == {i \in 1..Len(Items) : Items[i].amount.t = "num"}

RECURSIVE SumAt(_)
SumAt(I) ==
    IF I = {} THEN 0
    ELSE LET i == CHOOSE j \in I : TRUE IN Items[i].amount.v + SumAt(I \ {i})

\* a whole number c of hundredths (in units) that is nearest to x
NearestCent(c, x) == c % UnitsPerCent = 0 /\ Abs(c - x) * 2 <= UnitsPerCent

SomePosInf == data.startingBalance.t = "inf" \/ \E i \in NumericIdx : Items[i].amount.t = "inf"
SomeNegInf == data.startingBalance.t = "ninf" \/ \E i \in NumericIdx : Items[i].amount.t = "ninf"

\* everything the sum is made of is finite
FiniteSum == ~SomePosInf /\ ~SomeNegInf

\* endingBalance - (startingBalance + sum of the numeric amounts), in units
Discrepancy == data.endingBalance.v - (data.startingBalance.v + SumAt(NumericIdx))

---------------------------------------------------------------------------
(* C1: when startingBalance is null, or endingBalance is null, or the
   transaction list is absent, the invocation returns (it does not throw)
   calculatedEndingBalance = null, difference = null and matches = false,
   whatever the other fields hold. *)
C1_ShortCircuit ==
    (pc = "done" /\ (\/ data.startingBalance = Null
                     \/ data.endingBalance = Null
                     \/ ~data.transactions.present))
        => result = Returned(Null, Null, FALSE)

\* startingBalance = null, a stated balance, transactions = [] : the spec's scenario
C1_Witness ==
    /\ pc = "done"
    /\ data.startingBalance = Null
    /\ data.endingBalance = Num(200)
    /\ data.transactions = List(<<>>)
    /\ result = Returned(Null, Null, FALSE)

(* C2: with both balances numbers and a list of transaction objects,
   calculatedEndingBalance is startingBalance plus the sum of the amounts
   that pass the filter (numbers other than NaN), rounded to the nearest
   hundredth; an infinite term makes it that infinity, opposite infinities
   make it NaN. *)
C2_CalculatedIsRoundedSum ==
    (pc = "done" /\ WellShaped) =>
        /\ ~result.threw
        /\ LET c == result.calculatedEndingBalance
           IN IF SomePosInf /\ SomeNegInf THEN c = NaN
              ELSE IF SomePosInf THEN c = PosInf
              ELSE IF SomeNegInf THEN c = NegInf
              ELSE /\ c.t = "num"
                   /\ NearestCent(c.v, data.startingBalance.v + SumAt(NumericIdx))

\* 0.0051 + 0.01, with an excluded entry, is rounded up to 0.02
C2_Witness ==
    /\ pc = "done"
    /\ data.startingBalance = Num(51)
    /\ Items = <<Tx(Num(100)), Tx(Undefined)>>
    /\ IsNumber(data.endingBalance)
    /\ result.calculatedEndingBalance = Num(200)

(* C3: with both balances numbers and a list of transaction objects whose
   sum is finite, difference is a whole number of hundredths and
   difference + calculatedEndingBalance is the stated endingBalance rounded
   to the nearest hundredth; an infinite stated balance makes it +Infinity. *)
C3_DifferenceOfRounded ==
    (pc = "done" /\ WellShaped /\ FiniteSum) =>
        /\ ~result.threw
        /\ IF data.endingBalance.t = "inf" THEN result.difference = PosInf
           ELSE /\ result.difference.t = "num"
                /\ result.difference.v % UnitsPerCent = 0
                /\ NearestCent(result.difference.v + result.calculatedEndingBalance.v,
                               data.endingBalance.v)

\* stated 0.0198 -> 0.02, calculated 0.0049 -> 0.00, difference 0.02
C3_Witness ==
    /\ pc = "done"
    /\ data.startingBalance = Num(49)
    /\ data.endingBalance = Num(198)
    /\ Items = <<>>
    /\ data.transactions.present
    /\ result.difference = Num(200)

(* C4: whenever the invocation is not short-circuited and returns, matches
   is true exactly when difference is a number whose absolute value is
   below 0.015. *)
C4_MatchesIffWithinTolerance ==
    (pc = "done" /\ ~ShortCircuit(data) /\ ~result.threw) =>
        (result.matches <=>
            /\ result.difference.t = "num"
            /\ result.difference.v < 150
            /\ result.difference.v > 0 - 150)

\* a difference of -0.01 matches
C4_Witness ==
    /\ pc = "done"
    /\ ~ShortCircuit(data)
    /\ result.difference = Num(0 - 100)
    /\ result.matches

(* C5: with finite balances and a list of transaction objects whose amounts
   are all finite numbers and sum exactly to endingBalance - startingBalance,
   matches is true and difference is 0. *)
C5_ExactSumReconciles ==
    (/\ pc = "done"
     /\ WellShaped
     /\ IsFinite(data.startingBalance)
     /\ IsFinite(data.endingBalance)
     /\ FiniteIdx = 1..Len(Items)
     /\ data.startingBalance.v + SumAt(FiniteIdx) = data.endingBalance.v)
        => (~result.threw /\ result.matches /\ result.difference = Num(0))

(* C6 as stated: a stated endingBalance that differs from startingBalance +
   (sum of valid amounts) by exactly 0.0149 gives matches = true, one that
   differs by exactly 0.015 gives matches = false. *)
C6_RawBoundary ==
    (pc = "done" /\ WellShaped /\ FiniteSum /\ IsFinite(data.endingBalance)) =>
        /\ Abs(Discrepancy) = 149 => result.matches
        /\ Abs(Discrepancy) = 150 => ~result.matches

(* C6 as amended: when the stated endingBalance differs from startingBalance
   + (sum of valid amounts) by exactly 0.0149 or exactly 0.015, the returned
   difference is 0.01 or 0.02 in absolute value and matches is true exactly
   when it is 0.01. *)
C6_BoundaryAfterRounding ==
    (/\ pc = "done" /\ WellShaped /\ FiniteSum /\ IsFinite(data.endingBalance)
     /\ Abs(Discrepancy) \in {149, 150})
        => /\ ~result.threw
           /\ result.difference.t = "num"
           /\ Abs(result.difference.v) \in {100, 200}
           /\ result.matches <=> Abs(result.difference.v) = 100

\* 0.0049 against a stated 0.0198: 0.0149 apart, and no match
C6_Witness ==
    /\ pc = "done"
    /\ WellShaped
    /\ FiniteSum
    /\ IsFinite(data.endingBalance)
    /\ Abs(Discrepancy) = 149
    /\ result.difference = Num(200)
    /\ ~result.matches

(* C7: every invocation returns a ReconciliationResult; none throws. *)
C7_NeverThrows == pc = "done" => ~result.threw

\* the input without the entries whose amount is not a number, or is NaN
NonNumeric(tx) == ~tx.isNull /\ tx.amount.t \in {"undef", "str", "null", "nan"}
Stripped ==
    [data EXCEPT !.transactions.items = SelectSeq(Items, LAMBDA tx : ~NonNumeric(tx))]

(* C8: the outcome for a transaction list equals the outcome for the same
   list with every transaction whose amount is non-numeric or undefined
   removed, the balances being the same. *)
C8_InvalidAmountsIgnored ==
    pc = "done" => result = performReconciliation(Stripped)

\* a list with an undefined amount before a numeric one, reconciled with a match
C8_Witness ==
    /\ pc = "done"
    /\ Items = <<Tx(Undefined), Tx(Num(200))>>
    /\ data.startingBalance = Num(0)
    /\ data.endingBalance = Num(200)
    /\ result = Returned(Num(200), Num(0), TRUE)

(* C9: only finite amounts contribute: with finite balances and a list of
   transaction objects, calculatedEndingBalance is startingBalance plus the
   sum of the finite amounts, rounded to the nearest hundredth. *)
C9_OnlyFiniteAmountsSummed ==
    (pc = "done" /\ WellShaped /\ IsFinite(data.startingBalance)) =>
        /\ ~result.threw
        /\ result.calculatedEndingBalance.t = "num"
        /\ NearestCent(result.calculatedEndingBalance.v,
                       data.startingBalance.v + SumAt(FiniteIdx))

(* C10: every invocation on data returns what the first invocation on data
   returned, whatever invocations on other arguments were made in between. *)
C10_SameInputSameResult ==
    /\ (pc = "done" /\ first.made) => result = first.result
    /\ (last.made /\ last.arg = data /\ first.made) => last.result = first.result

\* a second invocation on data, after an invocation on another argument,
\* that reconciles with a match
C10_Witness ==
    /\ pc = "done"
    /\ calls = 3
    /\ between = 1
    /\ last.arg = data
    /\ result.matches
    /\ result = first.result

(* C11: the outcome does not depend on the order of the transactions: every
   arrangement of the transaction sequence gives the same
   calculatedEndingBalance, difference and matches. *)
C11_OrderIndependent ==
    (pc = "done" /\ data.transactions.present) =>
        \A q \in Arrangements(Items) :
            performReconciliation([data EXCEPT !.transactions.items = q]) = result

(* C12: 1200.00 with 500.00 and -150.01 against a stated 1550.00 returns
   calculatedEndingBalance = 1549.99, difference = 0.01 and matches = true;
   and every returned difference of one cent, either way, reconciles. *)
C12_OneCentReconciles ==
    /\ (pc = "done" /\ data = Input(Num(12000000), Num(15500000),
                                    List(<<Tx(Num(5000000)), Tx(Num(0 - 1500100))>>)))
           => result = Returned(Num(15499900), Num(100), TRUE)
    /\ (pc = "done" /\ ~result.threw /\ result.difference.t = "num"
            /\ Abs(result.difference.v) = 100)
           => result.matches

\* the example has been reconciled
C12_Witness ==
    /\ pc = "done"
    /\ data.startingBalance = Num(12000000)
    /\ Items = <<Tx(Num(5000000)), Tx(Num(0 - 1500100))>>
    /\ result.calculatedEndingBalance = Num(15499900)
    /\ result.difference = Num(100)
    /\ result.matches

(* C13: no step changes the argument of an invocation, excluded transactions
   included, and an invocation made after invocations on other arguments
   returns what the first invocation on the same argument returned. *)
C13_ArgumentAndResultUntouched ==
    [][/\ data' = data
       /\ (pc' = "done" /\ first.made) => result' = first.result
       /\ between' # between => (result' = result /\ first' = first)]_vars

\* an invocation on a list with an excluded transaction, repeated after an
\* invocation on another argument: the list still holds the transaction
C13_Witness ==
    /\ pc = "done"
    /\ calls = 3
    /\ between = 1
    /\ last.arg = data
    /\ warned = <<1>>
    /\ Items = <<Tx(Undefined), Tx(Num(200))>>

(* C18: with number balances and a list of transaction objects, k >= 1
   excluded transactions produce exactly one warning, which reports k, no
   excluded transaction produces none, and in both cases a result with
   calculatedEndingBalance, difference and matches is returned. *)
C18_ExcludedCountWarned ==
    (pc = "done" /\ WellShaped) =>
        /\ LET k == Len(Items) - Cardinality(NumericIdx)
           IN warned = IF k >= 1 THEN <<k>> ELSE <<>>
        /\ ~result.threw
        /\ result.calculatedEndingBalance.t # "undef"
        /\ result.difference.t # "undef"

\* two transactions excluded, one warning reporting 2
C18_Witness ==
    /\ pc = "done"
    /\ WellShaped
    /\ Items = <<Tx(Undefined), Tx(Str)>>
    /\ warned = <<2>>
    /\ ~result.threw

---------------------------------------------------------------------------
(* The POST handler: properties *)

IssueMessage == "PDF processed, but there was an issue with LLM data extraction."
CompleteMessage == "PDF processed and LLM extraction complete."
Degraded == [calculatedEndingBalance |-> Null, difference |-> Null, matches |-> FALSE]
NothingInvoked == pdfCalls = 0 /\ llmCalls = 0 /\ reconCalls = 0

\* C14: a request without a pdfFile entry is answered 400 'No file uploaded.',
\* a request whose file is not application/pdf is answered 400 'Invalid file
\* type. Please upload a PDF.', and for neither the PDF parser, the LLM or
\* the reconciler has been invoked.
C14_BadUploadsRejected ==
    hpc = "responded" /\ req.form \in {"none", "other"} =>
        /\ response.status = 400
        /\ response.error = IF req.form = "none" THEN "No file uploaded."
                            ELSE "Invalid file type. Please upload a PDF."
        /\ NothingInvoked

C14_Witness ==
    /\ hpc = "responded"
    /\ req.form = "other"
    /\ response.status = 400
    /\ served = 1

\* the extraction step of the answered request failed for one of the reasons
\* the claim lists
ExtractionFailed ==
    \/ ~apiKey
    \/ req.llm.kind \in {"throws", "empty", "badjson"}

\* C15: whenever the LLM extraction step of an answered request failed (no
\* API key, the LLM call threw, the LLM answered with an empty text or with
\* a text that is not JSON), the message of the response is the one that
\* reports an issue with the LLM extraction, and the message that reports a
\* complete extraction is given only when the extraction did not fail.
C15_LlmFailureReported ==
    hpc = "responded" /\ details.called /\ response.status = 200 =>
        /\ ExtractionFailed => response.message = IssueMessage
        /\ response.message = CompleteMessage => ~ExtractionFailed

\* C16: in every execution of the handler pdf-parse is invoked at most once
\* and the LLM at most once, so neither is invoked again after a failure.
C16_SingleShot == pdfCalls <= 1 /\ llmCalls <= 1

C16_Witness ==
    /\ hpc = "responded"
    /\ pdfCalls = 1
    /\ llmCalls = 1
    /\ req.llm.kind = "throws"

\* C17: a request that delivers the same file, with the same results of
\* pdf-parse and of the LLM as the first request, gets the same response as
\* the first request, whatever requests were answered in between.
C17_NoPersistence ==
    hpc = "responded" /\ script.is = "repeat" => response = firstResponse

C17_Witness ==
    /\ hpc = "responded"
    /\ script.is = "repeat"
    /\ others >= 1
    /\ req.llm.kind = "throws"
    /\ response.status = 200

\* C19: a request whose PDF was parsed to a text that is empty or has fewer
\* than 50 characters after trim() is answered 200 with the reconciliation
\* {null, null, false}, no transactions and null balances, and neither the
\* LLM nor performReconciliation is invoked for it; the LLM is invoked only
\* for a PDF file that was read and parsed to a text of at least 50
\* characters after trim().
C19_MinimalText ==
    /\ hpc = "responded" /\ req.pdf.kind = "text"
          /\ (req.pdf.text.len = 0 \/ req.pdf.text.trimmed < 50) =>
            /\ response.status = 200
            /\ response.reconciliation = Degraded
            /\ response.extractedData.transactions = JArray(<<>>)
            /\ response.extractedData.startingBalance = Null
            /\ response.extractedData.endingBalance = Null
            /\ llmCalls = 0
            /\ reconCalls = 0
    /\ llmCalls >= 1 =>
            /\ req.form = "pdf"
            /\ req.buffer = "ok"
            /\ req.pdf.kind = "text"
            /\ req.pdf.text.trimmed >= 50

C19_Witness ==
    /\ hpc = "responded"
    /\ req.pdf = PdfText(Text(52, 49))
    /\ response.status = 200
    /\ pdfCalls = 1

\* getDetailsFromLlm was invoked on a failing case: no API key, an empty
\* text, or an LLM that threw, answered with an empty text, with a text that
\* is not JSON, or with JSON that is not an object
DetailsFailure ==
    \/ ~apiKey
    \/ req.pdf.text.len = 0 \/ req.pdf.text.trimmed = 0
    \/ req.llm.kind \in {"throws", "empty", "badjson", "nonobject", "jsonarray"}

\* C20: getDetailsFromLlm never throws, on every failing case it returns a
\* record with transactions = [] and null balances, and the handler, going
\* on with that record, answers 200 with the reconciliation {null, null,
\* false}.
C20_DetailsNeverThrow ==
    /\ details.called => ~details.threw
    /\ details.called /\ DetailsFailure =>
            /\ details.data.transactions = JArray(<<>>)
            /\ details.data.startingBalance = Null
            /\ details.data.endingBalance = Null
    /\ hpc = "responded" /\ DetailsFailure =>
            /\ response.status = 200
            /\ response.reconciliation = Degraded

C20_Witness ==
    /\ hpc = "responded"
    /\ apiKey
    /\ req.pdf.text.trimmed >= 50
    /\ req.llm.kind = "nonobject"
    /\ details.called
    /\ response.status = 200

\* C21: every record getDetailsFromLlm returns has all six fields, and its
\* transactions field is an array.
C21_RecordComplete ==
    details.called /\ ~details.threw =>
        /\ details.data.accountHolderName.t # "undef"
        /\ details.data.accountHolderAddress.t # "undef"
        /\ details.data.statementDate.t # "undef"
        /\ details.data.startingBalance # Undefined
        /\ details.data.endingBalance # Undefined
        /\ details.data.transactions.kind = "array"

\* an exception was raised while the answered request was handled: by
\* formData(), by arrayBuffer(), by pdf-parse or by performReconciliation
RaisedException ==
    \/ req.form = "throws"
    \/ req.buffer = "throws"
    \/ req.pdf.kind = "throws"
    \/ details.called /\ ~details.threw /\ performReconciliation(ToInput(details.data)).threw

\* C22: every request that has arrived is eventually answered, the status of
\* an answer is 200, 400 or 500, the answer of a request does not change once
\* given, and a request during which formData(), arrayBuffer(), pdf-parse or
\* performReconciliation raised an exception is answered 500 with an error.
C22_AlwaysAnswered ==
    /\ [](hpc = "responded" =>
            /\ response.status \in {200, 400, 500}
            /\ RaisedException => response.status = 500 /\ response.error # "")
    /\ [][hpc = "responded" /\ hpc' = "responded" => response' = response]_vars
    /\ (hpc \in {"formData", "arrayBuffer", "pdf", "llm"}) ~> (hpc = "responded")

C22_Witness ==
    /\ hpc = "responded"
    /\ response.status = 500
    /\ details.called
    /\ performReconciliation(ToInput(details.data)).threw

---------------------------------------------------------------------------
(* The upload form: properties *)

\* C23: at most one request to /api/parse-statement is in flight, and
\* isLoading is true for as long as a request is in flight.
C23_OneInFlight ==
    /\ Len(flights) <= 1
    /\ flights # <<>> => isLoading

C23_Witness ==
    /\ Len(flights) = 1
    /\ flights[1].at = "json"
    /\ isLoading
    /\ file # NoFile

\* C24: a non-null apiResponse is the response for the file that is
\* currently selected.
C24_NeverStale ==
    apiResponse.set => file # NoFile /\ apiResponse.file = file

\* C25: whenever isLoading is true it is false again later: the submission
\* completes, whether fetch rejects or resolves, with a response that is OK
\* or not, and with a body that is JSON or not.
C25_LoadingEnds == isLoading ~> ~isLoading

C25_Witness ==
    /\ ~isLoading
    /\ flights = <<>>
    /\ completed = "rejects"

\* C26: right after a submission has completed in failure (the response was
\* not OK, its body was not JSON, or fetch rejected), error is non-null and
\* apiResponse is null.
C26_FailureShown ==
    completed \in {"notok", "unparseable", "rejects"} =>
        error.set /\ error.text # "" /\ ~apiResponse.set

C26_Witness ==
    /\ completed = "notok"
    /\ error = Err("API Error: Bad Request (Status: 400)")
    /\ ~apiResponse.set

=============================================================================
